---- MODULE Spec2Model ----
(***************************************************************************)
(* The Lasso path controller celer_path (celer/homotopy.py) and the        *)
(* single-alpha adapter celer (celer/wrapper.py).                          *)
(*                                                                         *)
(* Numbers.  Floating point values are modelled by exact values:           *)
(*   - a rational is a pair <<n, d>> in lowest terms with d > 0;           *)
(*   - an alpha is a record [c |-> rational, e |-> rational] standing for  *)
(*     c * 10^e, which is what alpha_max * logspace(...) produces;         *)
(*   - coefficients, dual points, gaps, times and tol are integers.        *)
(* An optional argument is <<>> for None and <<v>> for the value v.        *)
(* Python indices are 0-based, sequences here are 1-based: the record of   *)
(* grid position t is at index t + 1.                                      *)
(***************************************************************************)
EXTENDS Integers, Sequences, FiniteSets, TLC

VARIABLES
    args,             \* the arguments of the running celer_path call
    caller,           \* the caller's arrays as they are now
    pc,               \* "idle", "start", "loop", "done", "raised"
    t,                \* grid points finished so far (the loop variable)
    X_sparse_scaling, \* homotopy.py:114-120
    alphas,           \* the grid, homotopy.py:122-127
    n_alphas,         \* homotopy.py:129
    coefs,            \* coefs[:, t], one column per grid point
    thetas,           \* thetas[t]
    dual_gaps,        \* dual_gaps[t]
    gaps_per_alpha,   \* the monitor lists, homotopy.py:136
    times_per_alpha,
    p0,               \* the local p0, reassigned in the loop
    results,          \* the returned tuple, <<>> before the return
    calls,            \* every inner solver call: its arguments and what it returned
    warns,            \* grid positions of the ConvergenceWarnings emitted
    solver_wrote,     \* TRUE: the last inner solver call wrote into its w_init
    fixed_solver,     \* TRUE: the inner solver is a function of its arguments
    memo,             \* what the fixed solver returned, by arguments
    run,              \* number of the celer_path call in progress
    first,            \* outcome of the previous celer_path call
    celer_args,       \* the arguments of the celer call, <<>> when there is none
    celer_result      \* what celer returned, <<>> before that

vars == <<args, caller, pc, t, X_sparse_scaling, alphas, n_alphas, coefs,
          thetas, dual_gaps, gaps_per_alpha, times_per_alpha, p0, results,
          calls, warns, solver_wrote, fixed_solver, memo, run, first,
          celer_args, celer_result>>

pathLocals == <<X_sparse_scaling, alphas, n_alphas, coefs, thetas, dual_gaps,
                gaps_per_alpha, times_per_alpha>>

----------------------------------------------------------------------------
(* Bounds of the model *)

\* longest alpha grid a caller supplies
MaxAlphas == 3
\* largest value in a supplied grid
MaxAlphaVal == 3
\* largest n_alphas asked of an auto-derived grid
MaxNAlphas == 3
\* largest duality gap the inner solver reports
MaxGap == 2
\* most outer iterations the inner solver performs in one call
MaxOuter == 2

\* default max_iter of celer_path
DefaultMaxIter == 20

----------------------------------------------------------------------------
(* Exact arithmetic *)

None == <<>>
Some(v) == <<v>>

Abs(n) == IF n < 0 THEN -n ELSE n
Max(a, b) == IF a >= b THEN a ELSE b

RECURSIVE GCD(_, _)
GCD(a, b) == IF b = 0 THEN a ELSE GCD(b, a % b)

\* n / d in lowest terms, d # 0
Rat(n, d) ==
    LET s == IF d < 0 THEN -1 ELSE 1
        g == GCD(Abs(n), Abs(d))
    IN  <<(s * n) \div g, (s * d) \div g>>

RatMul(a, b) == Rat(a[1] * b[1], a[2] * b[2])
RatDiv(a, b) == Rat(a[1] * b[2], a[2] * b[1])
RatLeq(a, b) == a[1] * b[2] <= b[1] * a[2]

\* the alpha c * 10^0
Num(r) == [c |-> r, e |-> Rat(0, 1)]
\* 10^x
Pow10(x) == [c |-> Rat(1, 1), e |-> x]
\* np.log10 of a power of ten
Log10(a) == a.e
\* r * a for a rational r and an alpha a; 0 * a is 0
Scale(r, a) == IF r[1] = 0 THEN Num(r) ELSE [c |-> RatMul(r, a.c), e |-> a.e]
\* a <= b for alphas that share the exponent or share a coefficient >= 0
NumLeq(a, b) ==
    CASE a.e = b.e -> RatLeq(a.c, b.c)
      [] a.e # b.e /\ a.c = b.c /\ a.c[1] > 0 -> RatLeq(a.e, b.e)
      [] a.e # b.e /\ a.c = b.c /\ a.c[1] = 0 -> TRUE

Zeros(n) == [i \in 1..n |-> 0]
\* number of nonzero entries of a vector
NNZ(w) == Cardinality({i \in 1..Len(w) : w[i] # 0})

----------------------------------------------------------------------------
(* Grid construction, homotopy.py:122-129 *)

NSamples(X) == Len(X)
NFeatures(X) == Len(X[1])

\* X.T.dot(y): one entry per feature
RECURSIVE Dot(_, _, _, _)
Dot(X, y, j, i) == IF i = 0 THEN 0 ELSE X[i][j] * y[i] + Dot(X, y, j, i - 1)

XTy(X, y) == [j \in 1..NFeatures(X) |-> Dot(X, y, j, NSamples(X))]

\* np.max(np.abs(v)) of a non-empty vector
MaxAbs(v) == CHOOSE m \in {Abs(v[j]) : j \in 1..Len(v)} :
                 \A j \in 1..Len(v) : Abs(v[j]) <= m

AlphaMax(X, y) == Rat(MaxAbs(XTy(X, y)), NSamples(X))

\* np.linspace with endpoint=False: the samples stop short of `stop`
LinspaceOpen(stop, num) ==
    [i \in 1..num |-> RatMul(Rat(i - 1, 1), RatDiv(stop, Rat(num, 1)))]

\* np.linspace(0, stop, num): num samples, the last one is stop when num > 1
Linspace(stop, num) ==
    [i \in 1..num |->
        IF num > 1 /\ i = num THEN stop
        ELSE IF num > 1 THEN RatMul(Rat(i - 1, 1), RatDiv(stop, Rat(num - 1, 1)))
        ELSE Rat(0, 1)]

\* np.logspace(0, stop, num) = 10 ** np.linspace(0, stop, num)
Logspace(stop, num) == [i \in 1..num |-> Pow10(Linspace(stop, num)[i])]

AutoGrid(X, y, eps, num) ==
    [i \in 1..num |-> Scale(AlphaMax(X, y), Logspace(Log10(eps), num)[i])]

RECURSIVE Insert(_, _)
Insert(x, s) ==
    IF s = <<>> THEN <<x>>
    ELSE IF NumLeq(x, s[1]) THEN <<x>> \o s
    ELSE <<s[1]>> \o Insert(x, Tail(s))

\* np.sort: ascending, a new array
RECURSIVE Sort(_)
Sort(s) == IF s = <<>> THEN <<>> ELSE Insert(s[1], Sort(Tail(s)))

\* s[::-1]
Reverse(s) == [i \in 1..Len(s) |-> s[Len(s) + 1 - i]]

\* np.sort(alphas) without the [::-1]
SortedGridAscending(a) == Sort(a)

SortedGrid(a) == Reverse(Sort(a))

\* homotopy.py:122-127
Grid(X, y, eps, num, given) ==
    IF given = None THEN AutoGrid(X, y, eps, num) ELSE SortedGrid(given[1])

\* np.zeros(n_features) whether or not an offset is supplied
SparseScalingZeros(X, X_offset, X_scale) ==
    [j \in 1..NFeatures(X) |-> Rat(0, 1)]

\* homotopy.py:114-120
SparseScaling(X, X_offset, X_scale) ==
    IF X_offset # None
    THEN [j \in 1..Len(X_offset[1]) |-> Rat(X_offset[1][j], X_scale[1][j])]
    ELSE [j \in 1..NFeatures(X) |-> Rat(0, 1)]

----------------------------------------------------------------------------
(* The loop body, homotopy.py:139-181 *)

\* no .copy(): the vector is a view of the buffer `src`
NoCopy(src) == src

\* ndarray.copy(): the copy is a buffer of its own, not the buffer `src`
Copy(src) == "fresh"

\* coefs[:, t] in place of coefs[:, t - 1]: the column not yet computed
WInitThisColumn(pos, cols, coef_init, n_features) ==
    IF pos > 0 THEN [val |-> cols[pos + 1], buf |-> "fresh"]
    ELSE IF coef_init # None THEN [val |-> coef_init[1], buf |-> "fresh"]
    ELSE [val |-> Zeros(n_features), buf |-> "fresh"]

\* w_init = coefs[:, t - 1] and w_init = coef_init: views, no copies
WInitView(pos, cols, coef_init, n_features) ==
    IF pos > 0 THEN [val |-> cols[pos], buf |-> "coefs"]
    ELSE IF coef_init # None THEN [val |-> coef_init[1], buf |-> "coef_init"]
    ELSE [val |-> Zeros(n_features), buf |-> "fresh"]

\* homotopy.py:144-152: the initial vector and the buffer it lives in
WInit(pos, cols, coef_init, n_features) ==
    IF pos > 0 THEN [val |-> cols[pos], buf |-> Copy("coefs")]
    ELSE IF coef_init # None THEN [val |-> coef_init[1], buf |-> Copy("coef_init")]
    ELSE [val |-> Zeros(n_features), buf |-> "fresh"]

\* max(nonzeros, p0) at every grid position: p0 never shrinks
NextP0NeverShrinks(pos, w_init, coef_init, p) ==
    IF pos > 0 \/ coef_init # None THEN Max(NNZ(w_init), p) ELSE p

\* max(nonzeros, 1) at grid position 0 too: the caller's p0 is dropped
NextP0FloorOne(pos, w_init, coef_init, p) ==
    IF pos > 0 \/ coef_init # None THEN Max(NNZ(w_init), 1) ELSE p

\* homotopy.py:146,150: the working set size of grid position pos
NextP0(pos, w_init, coef_init, p) ==
    IF pos > 0 THEN Max(NNZ(w_init), 1)
    ELSE IF coef_init # None THEN Max(NNZ(w_init), p)
    ELSE p

\* homotopy.py:156-167: what the inner solver is called with
SolverArgs(a, X, y, scaling, alpha, w_init, p) ==
    [solver |-> IF a.sparse THEN "celer_sparse" ELSE "celer_dense",
     X |-> X, y |-> y,
     X_sparse_scaling |-> IF a.sparse THEN Some(scaling) ELSE None,
     alpha |-> alpha, w_init |-> w_init,
     max_iter |-> a.max_iter, gap_freq |-> a.opts.gap_freq,
     max_epochs |-> a.opts.max_epochs, p0 |-> p, verbose |-> a.opts.verbose,
     verbose_inner |-> a.opts.verbose_inner, use_accel |-> 1, tol |-> a.tol,
     prune |-> a.opts.prune]

\* the first entry of the gap trajectory: sol[2][0]
FinalGapFirst(gaps) == gaps[1]

\* sol[2][-1], homotopy.py:170; defined for a non-empty trajectory
FinalGap(gaps) == gaps[Len(gaps)]

\* dual_gaps[t] >= tol
NotConvergedGeq(gap, tol) == gap >= tol

\* homotopy.py:175
NotConverged(gap, tol) == gap > tol

\* a break after the warning: the loop is left
BreakAfterWarning(pos, n) == n

\* homotopy.py:139: the loop goes on to the next grid point after a warning
AfterWarning(pos, n) == pos + 1

\* homotopy.py:183-187: the returned tuple, each field with its name
Results(a, grid, cols, gaps, duals, gpa, tpa) ==
    <<<<"alphas", grid>>, <<"coefs", cols>>, <<"dual_gaps", gaps>>>>
    \o (IF a.return_thetas
        THEN <<<<"thetas", duals>>>>
             \o (IF a.monitor
                 THEN <<<<"gaps_per_alpha", gpa>>, <<"times_per_alpha", tpa>>>>
                 ELSE <<>>)
        ELSE <<>>)

----------------------------------------------------------------------------
(* The inner solver, celer_dense / celer_sparse: an external routine.  It  *)
(* returns (coefficients, dual point, gaps, times) with one gap and one    *)
(* time per outer iteration performed; it runs until the gap is below tol  *)
(* or max_iter iterations are done (homotopy.py:48-49, 67-70), so it does  *)
(* at least one iteration when max_iter >= 1 and none when max_iter = 0.   *)

CoefVals == {0, 1}
DualVals == {0, 1}

Trajectories(max_iter) ==
    IF max_iter <= 0 THEN {<<>>}
    ELSE UNION {[1..k -> 1..MaxGap] : k \in {j \in 1..MaxOuter : j <= max_iter}}

SolverOutcomes(k) ==
    {[w |-> w, theta |-> th, gaps |-> g, times |-> [i \in 1..Len(g) |-> i]] :
        w \in [1..Len(k.w_init) -> CoefVals],
        th \in {[i \in 1..Len(k.y) |-> v] : v \in DualVals},
        g \in Trajectories(k.max_iter)}

----------------------------------------------------------------------------
(* celer_path, homotopy.py:18-189 *)

CallerArrays(a) ==
    [X |-> a.X, y |-> a.y, alphas |-> a.alphas, coef_init |-> a.coef_init,
     X_offset |-> a.X_offset, X_scale |-> a.X_scale]

\* homotopy.py:105-136: everything before the loop
Setup ==
    /\ pc = "start"
    /\ LET grid == Grid(caller.X, caller.y, args.eps, args.n_alphas, caller.alphas)
           n == Len(grid)
       IN  /\ X_sparse_scaling' =
                  SparseScaling(caller.X, caller.X_offset, caller.X_scale)
           /\ alphas' = grid
           /\ n_alphas' = n
           /\ coefs' = [i \in 1..n |-> Zeros(NFeatures(caller.X))]
           /\ thetas' = [i \in 1..n |-> Zeros(NSamples(caller.X))]
           /\ dual_gaps' = [i \in 1..n |-> 0]
    /\ gaps_per_alpha' = <<>>
    /\ times_per_alpha' = <<>>
    /\ p0' = args.p0
    /\ t' = 0
    /\ pc' = "loop"
    /\ UNCHANGED <<args, caller, results, calls, warns, solver_wrote,
                   fixed_solver, memo, run, first, celer_args, celer_result>>

\* the contents of buffer b after the solver has written w into buffer `into`
Written(b, into, w, old) == IF into = b THEN w ELSE old

\* homotopy.py:139-181: one pass of the loop, the inner solver call included.
\* The solver may use its initial vector as work space (in_place).
Iterate ==
    /\ pc = "loop"
    /\ t < n_alphas
    /\ LET init == WInit(t, coefs, caller.coef_init, NFeatures(caller.X))
           p == NextP0(t, init.val, caller.coef_init, p0)
           k == SolverArgs(args, caller.X, caller.y, X_sparse_scaling,
                           alphas[t + 1], init.val, p)
       IN  \E sol \in (IF fixed_solver /\ k \in DOMAIN memo
                       THEN {memo[k]} ELSE SolverOutcomes(k)),
              in_place \in BOOLEAN :
             LET into == IF in_place THEN init.buf ELSE "fresh"
                 cols == IF t > 0
                         THEN [coefs EXCEPT ![t] = Written("coefs", into, sol.w, @)]
                         ELSE coefs
             IN  /\ p0' = p
                 /\ calls' = Append(calls, [args |-> k, ret |-> sol])
                 /\ solver_wrote' = in_place
                 /\ memo' = IF fixed_solver THEN (k :> sol) @@ memo ELSE memo
                 /\ caller' = [caller EXCEPT !.coef_init =
                                   IF @ = None THEN @
                                   ELSE Some(Written("coef_init", into, sol.w, @[1]))]
                 /\ IF sol.gaps = <<>>
                    THEN \* sol[2][-1] raises IndexError before anything is stored
                         /\ pc' = "raised"
                         /\ coefs' = cols
                         /\ UNCHANGED <<t, thetas, dual_gaps, gaps_per_alpha,
                                        times_per_alpha, warns>>
                    ELSE /\ coefs' = [cols EXCEPT ![t + 1] = sol.w]
                         /\ thetas' = [thetas EXCEPT ![t + 1] = sol.theta]
                         /\ dual_gaps' = [dual_gaps EXCEPT ![t + 1] = FinalGap(sol.gaps)]
                         /\ gaps_per_alpha' = IF args.monitor
                                              THEN Append(gaps_per_alpha, sol.gaps)
                                              ELSE gaps_per_alpha
                         /\ times_per_alpha' = IF args.monitor
                                               THEN Append(times_per_alpha, sol.times)
                                               ELSE times_per_alpha
                         /\ IF NotConverged(FinalGap(sol.gaps), args.tol)
                            THEN /\ warns' = Append(warns, t)
                                 /\ t' = AfterWarning(t, n_alphas)
                            ELSE /\ warns' = warns
                                 /\ t' = t + 1
                         /\ pc' = "loop"
    /\ UNCHANGED <<args, X_sparse_scaling, alphas, n_alphas, results,
                   fixed_solver, run, first, celer_args, celer_result>>

\* homotopy.py:183-189
Return ==
    /\ pc = "loop"
    /\ t >= n_alphas
    /\ results' = Results(args, alphas, coefs, dual_gaps, thetas,
                          gaps_per_alpha, times_per_alpha)
    /\ pc' = "done"
    /\ UNCHANGED <<args, caller, t, pathLocals, p0, calls, warns, solver_wrote,
                   fixed_solver, memo, run, first, celer_args, celer_result>>

Next == Setup \/ Iterate \/ Return

----------------------------------------------------------------------------
(* The calls of celer_path that are explored *)

\* the data of the scenario n_features = 2, n_samples = 3
X0 == <<<<1, 0>>, <<0, 1>>, <<1, 1>>>>
y0 == <<1, 1, 2>>
\* one feature, two samples
X1 == <<<<2>>, <<1>>>>
y1 == <<1, 1>>

Opts0 == [gap_freq |-> 10, max_epochs |-> 50000, verbose |-> 0,
          verbose_inner |-> 0, prune |-> 0]
Opts1 == [gap_freq |-> 5, max_epochs |-> 100, verbose |-> 1,
          verbose_inner |-> 1, prune |-> 1]

\* an integer grid as an array of alphas
AsGrid(a) == [i \in 1..Len(a) |-> Num(Rat(a[i], 1))]

BaseArgs ==
    [X |-> X0, y |-> y0, sparse |-> FALSE, eps |-> Pow10(Rat(-3, 1)),
     n_alphas |-> 100, alphas |-> Some(AsGrid(<<2, 1>>)), coef_init |-> None,
     max_iter |-> 1, opts |-> Opts0, p0 |-> 1, tol |-> 1,
     return_thetas |-> TRUE, monitor |-> TRUE, X_offset |-> None,
     X_scale |-> None]

CoefInits(X) == {None} \cup {Some(w) : w \in [1..NFeatures(X) -> CoefVals]}

\* warm starts: every coef_init and p0, grids of one and two points
WarmArgs ==
    {[BaseArgs EXCEPT !.alphas = Some(AsGrid(g)), !.coef_init = ci, !.p0 = p] :
        g \in {<<1>>, <<2, 1>>, <<1, 2>>}, ci \in CoefInits(X0), p \in 1..2}

\* the four combinations of return_thetas and monitor, with and without iterations
FlagArgs ==
    {[BaseArgs EXCEPT !.return_thetas = rt, !.monitor = mo, !.max_iter = mi] :
        rt \in BOOLEAN, mo \in BOOLEAN, mi \in 0..1}

\* trajectories of more than one outer iteration
DeepArgs ==
    {[BaseArgs EXCEPT !.max_iter = 2, !.tol = tl, !.opts = Opts1] : tl \in 1..2}

\* every supplied grid, in any order and with repeated values; the grid is
\* built before the first inner solver call, and with max_iter = 0 the call
\* ends there
GridArgs ==
    {[BaseArgs EXCEPT !.alphas = Some(AsGrid(g)), !.max_iter = 0] :
        g \in UNION {[1..n -> 1..MaxAlphaVal] : n \in 0..MaxAlphas}}
    \cup {[BaseArgs EXCEPT !.alphas = Some(AsGrid(<<1, 3, 2>>))],
          [BaseArgs EXCEPT !.X = X1, !.y = y1, !.alphas = Some(AsGrid(<<2, 2, 1>>))]}

\* auto-derived grids
AutoArgs ==
    {[BaseArgs EXCEPT !.X = d[1], !.y = d[2], !.alphas = None,
                      !.eps = Pow10(Rat(x, 1)), !.n_alphas = n, !.max_iter = 0] :
        d \in {<<X0, y0>>, <<X0, <<0, 0, 0>>>>, <<X0, <<2, 0, -3>>>>, <<X1, y1>>},
        x \in -2..1, n \in 0..MaxNAlphas}
    \cup {[BaseArgs EXCEPT !.X = X1, !.y = y1, !.alphas = None,
                           !.eps = Pow10(Rat(-1, 1)), !.n_alphas = n] : n \in 1..3}
    \cup {[BaseArgs EXCEPT !.X = X1, !.y = y1, !.alphas = None,
                           !.eps = Pow10(Rat(1, 1)), !.n_alphas = 2]}

\* sparse and dense X, with and without the centering vectors
SparseArgs ==
    {[BaseArgs EXCEPT !.sparse = sp, !.X_offset = c[1], !.X_scale = c[2]] :
        sp \in BOOLEAN,
        c \in {<<None, None>>, <<Some(<<1, 3>>), Some(<<2, 2>>)>>}}

PathArgs == WarmArgs \cup FlagArgs \cup DeepArgs \cup GridArgs \cup AutoArgs
            \cup SparseArgs

\* a call of celer_path with arguments a, nothing done yet
Called(a) ==
    /\ args = a
    /\ caller = CallerArrays(a)
    /\ pc = "start"
    /\ t = 0
    /\ X_sparse_scaling = <<>>
    /\ alphas = <<>>
    /\ n_alphas = 0
    /\ coefs = <<>>
    /\ thetas = <<>>
    /\ dual_gaps = <<>>
    /\ gaps_per_alpha = <<>>
    /\ times_per_alpha = <<>>
    /\ p0 = a.p0
    /\ results = <<>>
    /\ calls = <<>>
    /\ warns = <<>>
    /\ solver_wrote = FALSE
    /\ memo = <<>>
    /\ run = 1
    /\ first = <<>>

Init ==
    /\ \E a \in PathArgs : Called(a)
    /\ fixed_solver = FALSE
    /\ celer_args = None
    /\ celer_result = None

Spec == Init /\ [][Next]_vars

----------------------------------------------------------------------------
(* celer_path called a second time with the same arguments, the arrays     *)
(* being the caller's arrays as the first call left them, and an inner     *)
(* solver that is a function of its arguments.                             *)

Outcome == [pc |-> pc, results |-> results, warns |-> warns]

Rerun ==
    /\ pc \in {"done", "raised"}
    /\ run = 1
    /\ celer_args = None
    /\ first' = Some(Outcome)
    /\ run' = 2
    /\ pc' = "start"
    /\ t' = 0
    /\ X_sparse_scaling' = <<>>
    /\ alphas' = <<>>
    /\ n_alphas' = 0
    /\ coefs' = <<>>
    /\ thetas' = <<>>
    /\ dual_gaps' = <<>>
    /\ gaps_per_alpha' = <<>>
    /\ times_per_alpha' = <<>>
    /\ p0' = args.p0
    /\ results' = <<>>
    /\ calls' = <<>>
    /\ warns' = <<>>
    /\ solver_wrote' = FALSE
    /\ UNCHANGED <<args, caller, fixed_solver, memo, celer_args, celer_result>>

InitRerun ==
    /\ \E a \in PathArgs : Called(a)
    /\ fixed_solver = TRUE
    /\ celer_args = None
    /\ celer_result = None

NextRerun == Setup \/ Iterate \/ Return \/ Rerun

SpecRerun == InitRerun /\ [][NextRerun]_vars

----------------------------------------------------------------------------
(* celer, wrapper.py:11-88, followed by the celer_path call it is compared *)
(* with: a one-element grid, the same options, return_thetas and monitor.  *)

\* wrapper.py:77-81: the arguments celer gives celer_path; eps, n_alphas,
\* max_iter, X_offset and X_scale are left to their defaults
CelerPathArgs(c) ==
    [X |-> c.X, y |-> c.y, sparse |-> c.sparse, eps |-> Pow10(Rat(-3, 1)),
     n_alphas |-> 100, alphas |-> Some(<<c.alpha>>), coef_init |-> c.w_init,
     max_iter |-> DefaultMaxIter, opts |-> c.opts, p0 |-> c.p0, tol |-> c.tol,
     return_thetas |-> TRUE, monitor |-> TRUE, X_offset |-> None,
     X_scale |-> None]

\* wrapper.py:77,83-88: the six-element result, unpacked at index 0
Unwrap(res) == <<res[2][2][1], res[4][2][1], res[5][2][1], res[6][2][1]>>

\* the path call with the identical value of every option of celer
ReferenceArgs(c) == [CelerPathArgs(c) EXCEPT !.max_iter = c.max_iter]

CelerCall ==
    /\ pc = "idle"
    /\ celer_args # None
    /\ args' = CelerPathArgs(celer_args[1])
    /\ caller' = CallerArrays(CelerPathArgs(celer_args[1]))
    /\ pc' = "start"
    /\ p0' = celer_args[1].p0
    /\ UNCHANGED <<t, pathLocals, results, calls, warns, solver_wrote,
                   fixed_solver, memo, run, first, celer_args, celer_result>>

CelerReturn ==
    /\ pc = "done"
    /\ celer_args # None
    /\ run = 1
    /\ celer_result' = Some(Unwrap(results))
    /\ pc' = "returned"
    /\ UNCHANGED <<args, caller, t, pathLocals, p0, results, calls, warns,
                   solver_wrote, fixed_solver, memo, run, first, celer_args>>

ReferenceCall ==
    /\ pc = "returned"
    /\ args' = ReferenceArgs(celer_args[1])
    /\ caller' = CallerArrays(ReferenceArgs(celer_args[1]))
    /\ first' = Some(Outcome)
    /\ run' = 2
    /\ pc' = "start"
    /\ t' = 0
    /\ X_sparse_scaling' = <<>>
    /\ alphas' = <<>>
    /\ n_alphas' = 0
    /\ coefs' = <<>>
    /\ thetas' = <<>>
    /\ dual_gaps' = <<>>
    /\ gaps_per_alpha' = <<>>
    /\ times_per_alpha' = <<>>
    /\ p0' = celer_args[1].p0
    /\ results' = <<>>
    /\ calls' = <<>>
    /\ warns' = <<>>
    /\ solver_wrote' = FALSE
    /\ UNCHANGED <<fixed_solver, memo, celer_args, celer_result>>

CelerArgs ==
    {[X |-> X0, y |-> y0, sparse |-> FALSE, alpha |-> Num(Rat(1, 1)),
      w_init |-> wi, max_iter |-> mi, opts |-> Opts1, p0 |-> 2, tol |-> 1] :
        wi \in {None, Some(<<1, 0>>)}, mi \in 1..2}

InitCeler ==
    /\ \E c \in CelerArgs : celer_args = Some(c)
    /\ celer_result = None
    /\ fixed_solver = TRUE
    /\ pc = "idle"
    /\ args = None
    /\ caller = None
    /\ t = 0
    /\ X_sparse_scaling = <<>>
    /\ alphas = <<>>
    /\ n_alphas = 0
    /\ coefs = <<>>
    /\ thetas = <<>>
    /\ dual_gaps = <<>>
    /\ gaps_per_alpha = <<>>
    /\ times_per_alpha = <<>>
    /\ p0 = 0
    /\ results = <<>>
    /\ calls = <<>>
    /\ warns = <<>>
    /\ solver_wrote = FALSE
    /\ memo = <<>>
    /\ run = 1
    /\ first = <<>>

NextCeler ==
    CelerCall \/ Setup \/ Iterate \/ Return \/ CelerReturn \/ ReferenceCall

SpecCeler == InitCeler /\ [][NextCeler]_vars

----------------------------------------------------------------------------
(* Properties of one celer_path call, checked under Spec *)

\* the grid points whose record is stored
Stored == 1..t

\* the fields of the returned tuple, in order
FieldNames == [i \in 1..Len(results) |-> results[i][1]]
HasField(name) == \E i \in 1..Len(results) : results[i][1] = name

\* C1: the initial vector of every inner solver call is the stored (and
\* returned) coefficient vector of the previous grid point for t > 0, and at
\* t = 0 the caller's coef_init when supplied, the zero vector otherwise.
C1_InitialCoefficients ==
    \A i \in 1..Len(calls) :
        /\ i > 1 => /\ calls[i].args.w_init = coefs[i - 1]
                    /\ coefs[i - 1] = calls[i - 1].ret.w
        /\ i = 1 /\ args.coef_init # None =>
               calls[i].args.w_init = args.coef_init[1]
        /\ i = 1 /\ args.coef_init = None =>
               calls[i].args.w_init = Zeros(NFeatures(args.X))

\* a second call was warm-started with a non-zero vector, after a first call
\* that started from a supplied coef_init
C1_Witness ==
    /\ Len(calls) >= 2
    /\ args.coef_init # None
    /\ calls[1].args.w_init # Zeros(NFeatures(args.X))
    /\ calls[2].args.w_init # Zeros(NFeatures(args.X))
    /\ calls[2].args.w_init # calls[1].args.w_init

\* C3: the result starts with (alphas, coefs, dual_gaps); thetas is in it iff
\* return_thetas, the gap and timing trajectories are in it iff monitor.
C3_ConditionalFields ==
    pc = "done" =>
        /\ Len(results) >= 3
        /\ SubSeq(FieldNames, 1, 3) = <<"alphas", "coefs", "dual_gaps">>
        /\ HasField("thetas") <=> args.return_thetas
        /\ HasField("gaps_per_alpha") <=> args.monitor
        /\ HasField("times_per_alpha") <=> args.monitor

\* number of entries of s equal to v
Count(s, v) == Cardinality({i \in 1..Len(s) : s[i] = v})
IsPermutation(a, b) ==
    /\ Len(a) = Len(b)
    /\ \A i \in 1..Len(a) : Count(a, a[i]) = Count(b, a[i])

\* C4 as stated: the returned grid is the supplied one sorted, each alpha
\* strictly greater than the next.
C4_StrictlyDescending ==
    pc = "done" /\ args.alphas # None =>
        LET out == results[1][2]
        IN  /\ IsPermutation(out, args.alphas[1])
            /\ \A i \in 1..(Len(out) - 1) :
                   NumLeq(out[i + 1], out[i]) /\ out[i + 1] # out[i]

\* C4 amended: the grid, as built before the loop and as returned, is a
\* permutation of the supplied one in non-increasing order (equal alphas stay,
\* side by side).
C4_Descending ==
    pc # "start" /\ args.alphas # None =>
        /\ pc = "done" => results[1][2] = alphas
        /\ IsPermutation(alphas, args.alphas[1])
        /\ \A i \in 1..(Len(alphas) - 1) : NumLeq(alphas[i + 1], alphas[i])

\* a supplied grid of three different alphas, not in order, was returned sorted
C4_Witness ==
    /\ pc = "done"
    /\ args.alphas = Some(AsGrid(<<1, 3, 2>>))
    /\ results[1][2] = AsGrid(<<3, 2, 1>>)

\* C5: for t > 0 the p0 passed to the inner solver is
\* max(nonzeros of the coefficients stored for t - 1, 1), and never below 1.
C5_WorkingSetHint ==
    \A i \in 2..Len(calls) :
        /\ calls[i].args.p0 = Max(NNZ(coefs[i - 1]), 1)
        /\ calls[i].args.p0 >= 1

\* the previous solution was all zero while the caller's p0 and the nonzero
\* count of coef_init were both 2: the hint fell back to 1
C5_Witness ==
    /\ Len(calls) >= 2
    /\ args.p0 = 2
    /\ args.coef_init # None
    /\ calls[1].args.p0 = 2
    /\ NNZ(coefs[1]) = 0
    /\ calls[2].args.p0 = 1

\* C6: one warning for each stored grid point whose final gap is above tol,
\* none for the others.
C6_OneWarningPerOffender ==
    /\ \A s \in 0..(n_alphas - 1) :
           Count(warns, s) = IF s + 1 \in Stored /\ dual_gaps[s + 1] > args.tol
                             THEN 1 ELSE 0
    /\ Len(warns) = Cardinality({s \in Stored : dual_gaps[s] > args.tol})

\* a finished path with one grid point above tol and one exactly at tol
C6_Witness ==
    /\ pc = "done"
    /\ n_alphas = 2
    /\ dual_gaps[1] = args.tol
    /\ dual_gaps[2] > args.tol
    /\ warns = <<1>>

\* C7: after a grid point that ended above tol the path goes on: no
\* exception, the next call starts from the coefficients that call returned,
\* and a finished path has solved and recorded every grid point.
C7_NoAbort ==
    \A s \in Stored :
        dual_gaps[s] > args.tol =>
            /\ pc # "raised"
            /\ pc = "loop" => t <= n_alphas
            /\ s < Len(calls) => calls[s + 1].args.w_init = calls[s].ret.w
            /\ pc = "done" =>
                   /\ t = n_alphas
                   /\ Len(calls) = n_alphas
                   /\ Len(results[1][2]) = n_alphas
                   /\ Len(results[2][2]) = n_alphas
                   /\ Len(results[3][2]) = n_alphas

\* a finished path whose first grid point did not converge and handed a
\* non-zero vector to the second
C7_Witness ==
    /\ pc = "done"
    /\ n_alphas >= 2
    /\ dual_gaps[1] > args.tol
    /\ calls[1].ret.w # Zeros(NFeatures(args.X))
    /\ calls[2].args.w_init = calls[1].ret.w

\* C8: celer_path raises no exception, whatever the inner solver returns.
C8_NoException == pc # "raised"

\* the product a * b of two alphas, as eps * alpha_max
NumMul(a, b) ==
    IF a.c[1] = 0 \/ b.c[1] = 0 THEN Num(Rat(0, 1))
    ELSE [c |-> RatMul(a.c, b.c),
          e |-> Rat(a.e[1] * b.e[2] + b.e[1] * a.e[2], a.e[2] * b.e[2])]

\* a is max(|X^T y|) / n_samples
IsAlphaMax(a) ==
    /\ a.e = Rat(0, 1)
    /\ \E j \in 1..NFeatures(args.X) :
           a.c[1] * NSamples(args.X) = Abs(XTy(args.X, args.y)[j]) * a.c[2]
    /\ \A j \in 1..NFeatures(args.X) :
           a.c[1] * NSamples(args.X) >= Abs(XTy(args.X, args.y)[j]) * a.c[2]

\* C9 as stated: an auto-derived grid has n_alphas values, from alpha_max
\* down to eps * alpha_max, for every eps and n_alphas.
C9_AutoGrid ==
    pc = "done" /\ args.alphas = None =>
        LET out == results[1][2]
        IN  /\ Len(out) = args.n_alphas
            /\ Len(out) >= 1 =>
                   /\ IsAlphaMax(out[1])
                   /\ out[Len(out)] = NumMul(args.eps, out[1])
            /\ \A i \in 1..(Len(out) - 1) : NumLeq(out[i + 1], out[i])

\* C9 amended, of the grid as built and as returned: n_alphas values; the
\* first is alpha_max when n_alphas >= 1;
\* the last is eps * alpha_max when n_alphas >= 2; descending when eps <= 1.
C9_AutoGridFrom2 ==
    pc # "start" /\ args.alphas = None =>
        /\ pc = "done" => results[1][2] = alphas
        /\ Len(alphas) = args.n_alphas
        /\ Len(alphas) >= 1 => IsAlphaMax(alphas[1])
        /\ Len(alphas) >= 2 =>
               alphas[Len(alphas)] = NumMul(args.eps, alphas[1])
        /\ RatLeq(Log10(args.eps), Rat(0, 1)) =>
               \A i \in 1..(Len(alphas) - 1) : NumLeq(alphas[i + 1], alphas[i])

\* the grid of the scenario data (alpha_max = 1) with eps = 0.01, n_alphas = 3
C9_Witness ==
    /\ pc # "start"
    /\ args.alphas = None
    /\ args.X = X0 /\ args.y = y0
    /\ alphas = <<Num(Rat(1, 1)), Pow10(Rat(-1, 1)), Pow10(Rat(-2, 1))>>

----------------------------------------------------------------------------
(* Properties of two calls *)

\* C2: what celer returned is the index-0 slice of the result of celer_path
\* on the grid [alpha] with the identical options, max_iter included.
C2_CelerIsPathSlice ==
    run = 2 /\ pc \in {"done", "raised"} =>
        /\ pc = "done"
        /\ celer_result = Some(Unwrap(results))

\* C10: a call leaves the caller's X, y, alphas and coef_init as they were,
\* and the second of two calls with the same arguments and a deterministic
\* inner solver ends as the first did: same exception or same result tuple,
\* same warnings.
C10_Idempotent ==
    /\ caller = CallerArrays(args)
    /\ run = 2 /\ pc \in {"done", "raised"} => first = Some(Outcome)

\* the second call of a two-point path with a supplied coef_init has returned
\* a result with non-zero coefficients
C10_Witness ==
    /\ run = 2
    /\ pc = "done"
    /\ args.coef_init # None
    /\ n_alphas = 2
    /\ coefs[1] # coefs[2]
    /\ first = Some(Outcome)

----------------------------------------------------------------------------
(* Properties of the sequence of inner solver calls and of the records *)

\* C11: the inner solver is called once per grid point, in grid order and
\* one call after the other, n_alphas times in the whole run, and the alpha
\* of a call is greater than or equal to the alpha of the next call, for
\* supplied and auto-derived grids alike.
C11_OneCallPerGridPointDescending ==
    /\ Len(calls) <= n_alphas
    /\ \A i \in 1..Len(calls) : calls[i].args.alpha = alphas[i]
    /\ pc \in {"done", "raised"} => Len(calls) = n_alphas
    /\ \A i \in 1..(Len(calls) - 1) :
           NumLeq(calls[i + 1].args.alpha, calls[i].args.alpha)

\* C12: when the inner solver has written into its initial vector, the
\* coefficients stored for the previous grid point and the caller's coef_init
\* still have their values.
C12_InitialVectorIsCopy ==
    solver_wrote =>
        /\ caller.coef_init = args.coef_init
        /\ Len(calls) >= 2 =>
               coefs[Len(calls) - 1] = calls[Len(calls) - 1].ret.w

\* the solver of the second grid point wrote a different vector into its
\* initial vector, in a path started from a supplied coef_init
C12_Witness ==
    /\ solver_wrote
    /\ Len(calls) = 2
    /\ args.coef_init # None
    /\ calls[2].ret.w # calls[2].args.w_init
    /\ calls[1].ret.w # calls[1].args.w_init
    /\ coefs[1] = calls[1].ret.w

\* C13: at grid position 0 the p0 passed to the inner solver is
\* max(nonzeros of coef_init, the caller's p0) when coef_init is supplied and
\* the caller's p0 when it is not.
C13_FirstWorkingSetHint ==
    Len(calls) >= 1 =>
        calls[1].args.p0 =
            IF args.coef_init # None
            THEN Max(NNZ(args.coef_init[1]), args.p0)
            ELSE args.p0

\* the first call was made with a hint of 2: the two nonzeros of coef_init,
\* above the caller's p0 of 1
C13_Witness ==
    /\ Len(calls) >= 1
    /\ args.coef_init # None
    /\ NNZ(args.coef_init[1]) = 2
    /\ args.p0 = 1
    /\ calls[1].args.p0 = 2

\* C14: for every finished grid point s, dual_gaps[s] is the last entry of
\* the gap trajectory returned by the inner solver call of that grid point;
\* with monitor on, gaps_per_alpha[s] and times_per_alpha[s] are the whole gap
\* and timing trajectories of that same call, and when the path returns both
\* lists have n_alphas entries.
C14_RecordedGapsAndTrajectories ==
    /\ t <= Len(calls)
    /\ \A s \in Stored :
           /\ calls[s].args.alpha = alphas[s]
           /\ calls[s].ret.gaps # <<>>
           /\ dual_gaps[s] = calls[s].ret.gaps[Len(calls[s].ret.gaps)]
    /\ args.monitor =>
           /\ Len(gaps_per_alpha) = t
           /\ Len(times_per_alpha) = t
           /\ \A s \in Stored :
                  /\ gaps_per_alpha[s] = calls[s].ret.gaps
                  /\ times_per_alpha[s] = calls[s].ret.times
    /\ (pc = "done" /\ args.monitor) =>
           /\ Len(gaps_per_alpha) = n_alphas
           /\ Len(times_per_alpha) = n_alphas

\* a monitored path of two grid points has returned; the first call took two
\* outer iterations with gaps 2 then 1, and 1 is what was recorded
C14_Witness ==
    /\ pc = "done"
    /\ args.monitor
    /\ n_alphas = 2
    /\ calls[1].ret.gaps = <<2, 1>>
    /\ dual_gaps[1] = 1
    /\ gaps_per_alpha = <<calls[1].ret.gaps, calls[2].ret.gaps>>
    /\ times_per_alpha[1] = <<1, 2>>

\* the record of grid point s: its column of coefs, its dual point, its gap
\* and, with monitor on, its retained trajectories
Record(s, cols, duals, gaps, gpa, tpa) ==
    <<cols[s], duals[s], gaps[s],
      IF args.monitor THEN <<gpa[s], tpa[s]>> ELSE <<>>>>

\* C15: once the loop has started the grid is never modified, and a pass of
\* the loop (or the return) leaves the record of every finished grid point
\* s <= t as it was: coefs[:, s], thetas[s], dual_gaps[s] and, with monitor
\* on, gaps_per_alpha[s] and times_per_alpha[s].
C15_FinishedRecordsFrozen ==
    [][pc = "loop" =>
         /\ alphas' = alphas
         /\ n_alphas' = n_alphas
         /\ \A s \in Stored :
                Record(s, coefs, thetas, dual_gaps,
                       gaps_per_alpha, times_per_alpha)'
                = Record(s, coefs, thetas, dual_gaps,
                         gaps_per_alpha, times_per_alpha)]_vars

\* three grid points are finished, the last call wrote in place, and the
\* record of the first grid point is still what its own call returned
\* although both later calls returned different coefficients
C15_Witness ==
    /\ t = 3
    /\ solver_wrote
    /\ args.monitor
    /\ calls[2].ret.w # calls[1].ret.w
    /\ calls[3].ret.w # calls[1].ret.w
    /\ calls[3].ret.theta # calls[1].ret.theta
    /\ Record(1, coefs, thetas, dual_gaps, gaps_per_alpha, times_per_alpha)
       = <<calls[1].ret.w, calls[1].ret.theta, FinalGap(calls[1].ret.gaps),
           <<calls[1].ret.gaps, calls[1].ret.times>>>>

\* v is X_offset / X_scale, entry by entry, or n_features zeros when the
\* caller gave no offset
IsScalingVector(v) ==
    /\ Len(v) = NFeatures(args.X)
    /\ \A j \in 1..Len(v) :
           /\ v[j][2] # 0
           /\ IF args.X_offset # None
              THEN v[j][1] * args.X_scale[1][j] = args.X_offset[1][j] * v[j][2]
              ELSE v[j][1] = 0

\* C16: every inner solver call of the path is passed the vector
\* X_offset / X_scale when the caller supplied them, and n_features zeros
\* when no offset was supplied.
C16_ScalingOnEveryCall ==
    \A i \in 1..Len(calls) :
        /\ calls[i].args.X_sparse_scaling # None
        /\ IsScalingVector(calls[i].args.X_sparse_scaling[1])

\* C16, amended: when X is sparse every inner solver call of the path is
\* passed the vector X_offset / X_scale (n_features zeros when no offset was
\* supplied), the same vector at every grid point; when X is dense the inner
\* solver is passed no scaling vector at all.
C16_ScalingOnEverySparseCall ==
    \A i \in 1..Len(calls) :
        IF args.sparse
        THEN /\ calls[i].args.solver = "celer_sparse"
             /\ calls[i].args.X_sparse_scaling # None
             /\ IsScalingVector(calls[i].args.X_sparse_scaling[1])
             /\ calls[i].args.X_sparse_scaling = calls[1].args.X_sparse_scaling
        ELSE /\ calls[i].args.solver = "celer_dense"
             /\ calls[i].args.X_sparse_scaling = None

\* two calls on a sparse X with offsets (1, 3) and scales (2, 2): both were
\* passed (1/2, 3/2)
C16_Witness ==
    /\ args.sparse
    /\ args.X_offset = Some(<<1, 3>>)
    /\ args.X_scale = Some(<<2, 2>>)
    /\ Len(calls) = 2
    /\ \A i \in 1..2 :
           calls[i].args.X_sparse_scaling = Some(<<<<1, 2>>, <<3, 2>>>>)

====
